---- MODULE Spec2Model ----
(***************************************************************************)
(* Model of the Instagram account linking feature of social-queue:         *)
(*   - the server actions saveInstagramAccount and deleteInstagramAccount  *)
(*     (src/app/actions/instagramAccounts.ts) with the relational table    *)
(*     "instagram-accounts" and the object-storage bucket they act on;     *)
(*   - the Dashboard client component (src/unnamed/part_000).              *)
(* Remote services (Graph API, picture host, storage, database) answer     *)
(* nondeterministically: every response the code distinguishes is drawn    *)
(* with \E.                                                                *)
(*                                                                         *)
(* Three specifications share the variables:                               *)
(*   Spec       the two server actions, called directly and interleaved;   *)
(*   LinkSpec   the dashboard's picker and connect forms with the save     *)
(*              action they start;                                         *)
(*   ModalSpec  the dashboard's delete icons and confirmation modal with   *)
(*              the delete actions they start, from a store that holds     *)
(*              linked accounts.                                           *)
(* Toasts are not kept: they change nothing the component reads.           *)
(***************************************************************************)
EXTENDS Naturals, Sequences, FiniteSets, TLC

\* ------------------------------------------------------------------ bounds
\* Number of server-action invocations (save + delete) in one behaviour.
MaxCalls == 2

\* ------------------------------------------------------------- value sets
Null == "null"
Undef == "undefined"

UserIds == {"u1", "u2"}
AccountIds == {"a1", "a2"}
ShortTokens == {"short1"}
LongTokens == {"long1", "long2"}
PageIds == {"page1"}
AccountNames == {"name1"}
AppScopedUserIds == {"fb1"}
PictureUrls == {"pic1"}
\* MIME types the picture host can report, as the parts around "/" ;
\* <<"">> is a response without Content-Type (blob.type is "").
MimeTypes == {<<"image", "jpeg">>, <<"image", "png">>, <<"">>}

SaveErrorMessage ==
    "Sorry, we ran into an error connecting your Instagram account. Please try again."
DeleteErrorMessage ==
    "Sorry, we ran into an error deleting your Instagram account. Please try again."
SaveSuccessMessage == "Successfully added Instagram account"
DeleteSuccessMessage == "Successfully deleted Instagram account"

\* The argument object of saveInstagramAccount.
SaveInputs ==
    [appScopedUserId : AppScopedUserIds,
     shortLivedAccessToken : ShortTokens,
     instagramBusinessAccountId : AccountIds,
     facebookPageId : PageIds,
     instagramAccountName : AccountNames,
     pictureUrl : PictureUrls,
     userId : UserIds]

\* The two fields deleteInstagramAccount reads from its FormData.
DeleteInputs == [instagramBusinessAccountId : AccountIds, userId : UserIds]

VARIABLES
    rows,        \* table "instagram-accounts": a set of row records
    storage,     \* the storage bucket: object path -> content
    bucketName,  \* process.env.NEXT_PUBLIC_SOCIAL_MEDIA_POST_MEDIA_FILES_STORAGE_BUCKET
    save,        \* the running saveInstagramAccount invocation
    del,         \* the running deleteInstagramAccount invocation
    calls,       \* invocations started so far
    uploadRuns,  \* log of the uploadInstagramProfilePicture runs that returned
    \* --- the Dashboard component (one browser session of user DashboardUser)
    appScopedUserId,
    newInstagramAccounts,          \* useState<InstagramAccount[]>([])
    instagramAccounts,             \* prop: the persisted accounts
    youtubeChannels,               \* prop: the persisted channels
    openConfirmDeleteModal,
    instagramAccountToDelete,      \* {} for undefined, {row} otherwise
    youtubeChannelToDelete,        \* {} for undefined, {channel} otherwise
    \* The three useFormState hooks: the submissions of each form action that
    \* wait for their result, oldest first.  A result is consumed by the effect
    \* on its form state when it arrives and is read nowhere else, so the last
    \* result itself is not kept.
    saveForms,                     \* useFormState(saveInstagramAccount, ...)
    deleteForms,                   \* useFormState(deleteInstagramAccount, ...)
    youtubeForms,                  \* useFormState(deleteYoutubeChannel, ...)
    youtubeStore                   \* table "youtube-channels"

serverVars == <<rows, storage, bucketName, save, del, calls, uploadRuns>>
uiVars == <<appScopedUserId, newInstagramAccounts, instagramAccounts,
            youtubeChannels, openConfirmDeleteModal,
            instagramAccountToDelete, youtubeChannelToDelete,
            saveForms, deleteForms, youtubeForms, youtubeStore>>
vars == <<serverVars, uiVars>>

\* ------------------------------------------------------------ pure helpers

\* file.type.split("/")[1]
FileExtension(mime) == IF Len(mime) >= 2 THEN mime[2] ELSE Undef

\* `${userId}/instagramAccount/${instagramBusinessAccountId}/profile_picture.${ext}`
\* A path is the sequence of its "/"-separated segments; the file name is the
\* pair <<"profile_picture", ext>>.
ProfilePicturePath(userId, accountId, mime) ==
    <<userId, "instagramAccount", accountId, <<"profile_picture", FileExtension(mime)>>>>

\* `${userId}/instagramAccount/${instagramBusinessAccountId}`
RemoveKey(userId, accountId) == <<userId, "instagramAccount", accountId>>

\* The upload without the upsert option.
UpsertOption_Off == FALSE

\* The { upsert: true } option of the upload.
UpsertOption == TRUE

\* storage.from(bucket).remove(keys): the objects whose path is one of the keys
\* are removed; a key that names no object removes nothing and is no error.
StorageRemove(st, keys) ==
    [p \in (DOMAIN st) \ keys |-> st[p]]

\* storage.from(bucket).upload(path, file, {upsert})
StoragePut(st, path, content) ==
    [p \in (DOMAIN st) \cup {path} |-> IF p = path THEN content ELSE st[p]]

\* The row with the token the caller passed in instead of the exchanged one.
AccountRow_ShortToken(in, longLivedAccessToken, profilePictureFilePath) ==
    [account_name |-> in.instagramAccountName,
     facebook_page_id |-> in.facebookPageId,
     instagram_business_account_id |-> in.instagramBusinessAccountId,
     access_token |-> in.shortLivedAccessToken,
     picture_file_path |-> profilePictureFilePath,
     user_id |-> in.userId]

\* The row saveInstagramAccount inserts.
AccountRow(in, longLivedAccessToken, profilePictureFilePath) ==
    [account_name |-> in.instagramAccountName,
     facebook_page_id |-> in.facebookPageId,
     instagram_business_account_id |-> in.instagramBusinessAccountId,
     access_token |-> longLivedAccessToken,
     picture_file_path |-> profilePictureFilePath,
     user_id |-> in.userId]

\* Unique key instagram_business_account_id of table "instagram-accounts".
UniqueViolation(table, row) ==
    \E r \in table :
        r.instagram_business_account_id = row.instagram_business_account_id

\* The deletion empties the table.
RowsAfterDelete_Truncates(table, in) == {}

\* .delete().eq("instagram_business_account_id", instagramBusinessAccountId)
RowsAfterDelete(table, in) ==
    {r \in table :
        r.instagram_business_account_id # in.instagramBusinessAccountId}

IdleSave ==
    [pc |-> "idle", input |-> Null, longLivedAccessToken |-> Null,
     profilePictureFilePath |-> Null, trace |-> <<>>, result |-> Null,
     revalidated |-> FALSE, via |-> "none"]

\* `before` and `affected` are history fields: the objects stored when the call
\* began and the number of rows the call's row deletion removed.
IdleDelete ==
    [pc |-> "idle", input |-> Null, trace |-> <<>>, result |-> Null,
     revalidated |-> FALSE, before |-> {}, affected |-> 0, via |-> "none"]

\* The user whose dashboard is modelled (prop userId).
DashboardUser == "u1"

\* Rows of table "youtube-channels".
YoutubeChannelRows ==
    {[id |-> "yt1", channel_custom_url |-> "@channel1",
      profile_picture_path |-> "yt1.jpg", user_id |-> DashboardUser]}

ServerInit ==
    /\ rows = {}
    /\ storage = <<>>
    /\ bucketName \in {"media-bucket", Undef}
    /\ save = IdleSave
    /\ del = IdleDelete
    /\ calls = 0
    /\ uploadRuns = <<>>

DashboardInit ==
    /\ appScopedUserId = ""
    /\ newInstagramAccounts = <<>>
    /\ youtubeChannels = YoutubeChannelRows
    /\ openConfirmDeleteModal = FALSE
    /\ instagramAccountToDelete = {}
    /\ youtubeChannelToDelete = {}
    /\ saveForms = <<>>
    /\ deleteForms = <<>>
    /\ youtubeForms = <<>>
    /\ youtubeStore = YoutubeChannelRows

Init == ServerInit /\ DashboardInit /\ instagramAccounts = {}

\* ------------------------------------------------- saveInstagramAccount
\* What a Graph API call can come to: the fetch (or response.json()) rejects,
\* the envelope carries a non-empty error field, or it carries the payload.
GraphOutcomes == {"reject", "error_field", "ok"}

\* The envelope's error field left unchecked.
GraphCallThrows_NoErrorCheck(resp) == resp = "reject"

\* if (data.error) throw ..., and a rejected fetch propagates as it is.
GraphCallThrows(resp) == resp \in {"reject", "error_field"}

\* No catch block: the exception leaves saveInstagramAccount.
SaveCatch_Rethrow(s, tr) == [s EXCEPT !.pc = "propagated", !.trace = tr]

\* The catch block of saveInstagramAccount: every exception of the try block
\* becomes the generic error result.
SaveCatch(s, tr) ==
    [s EXCEPT !.pc = "returned", !.trace = tr,
              !.result = [error |-> SaveErrorMessage]]

\* The insert's error left unchecked: the success result is returned.
InsertErrorResult_Success == [error |-> Null]

\* The `if (error)` branch after the insert.
InsertErrorResult == [error |-> SaveErrorMessage]

\* revalidatePath("/accounts") and the success result.
SaveSuccessResult(in) ==
    [data |-> [message |-> SaveSuccessMessage,
               instagramBusinessAccountId |-> in.instagramBusinessAccountId],
     error |-> Null]

Entry(step, outcome) == [step |-> step, outcome |-> outcome]

SaveCall(in) ==
    /\ save.pc = "idle"
    /\ calls < MaxCalls
    /\ save' = [IdleSave EXCEPT !.pc = "resolve", !.input = in, !.via = "direct"]
    /\ calls' = calls + 1
    /\ UNCHANGED <<rows, storage, bucketName, del, uploadRuns, uiVars>>

\* Step 1: fetchInstagramUsernameFromPageId.
FetchInstagramUsernameFromPageId ==
    /\ save.pc = "resolve"
    /\ \E resp \in GraphOutcomes :
         LET tr == Append(save.trace, Entry("resolve", resp)) IN
         save' = IF GraphCallThrows(resp)
                 THEN SaveCatch(save, tr)
                 ELSE [save EXCEPT !.pc = "exchange", !.trace = tr]
    /\ UNCHANGED <<rows, storage, bucketName, del, calls, uploadRuns, uiVars>>

\* Step 2: fetchLongLivedAccessToken.
FetchLongLivedAccessToken ==
    /\ save.pc = "exchange"
    /\ \E resp \in GraphOutcomes, token \in LongTokens :
         LET tr == Append(save.trace, Entry("exchange", resp)) IN
         save' = IF GraphCallThrows(resp)
                 THEN SaveCatch(save, tr)
                 ELSE [save EXCEPT !.pc = "upload", !.trace = tr,
                                   !.longLivedAccessToken = token]
    /\ UNCHANGED <<rows, storage, bucketName, del, calls, uploadRuns, uiVars>>

\* What the storage upload can come to at `path`.
UploadOutcomes(st, path) ==
    IF ~UpsertOption /\ path \in DOMAIN st
    THEN {"duplicate", "upload_error"}
    ELSE {"ok", "upload_error", "no_path"}

\* Step 3: uploadInstagramProfilePicture.
UploadInstagramProfilePicture ==
    /\ save.pc = "upload"
    /\ \/ /\ bucketName = Undef
          /\ save' = SaveCatch(save, Append(save.trace, Entry("upload", "no_bucket")))
          /\ UNCHANGED <<storage, uploadRuns>>
       \/ /\ bucketName # Undef
          /\ \E dl \in {"reject", "not_ok"} :
               save' = SaveCatch(save, Append(save.trace, Entry("upload", dl)))
          /\ UNCHANGED <<storage, uploadRuns>>
       \/ /\ bucketName # Undef
          /\ \E mime \in MimeTypes :
               LET filePath == ProfilePicturePath(save.input.userId,
                                   save.input.instagramBusinessAccountId, mime)
               IN \E up \in UploadOutcomes(storage, filePath) :
                    LET tr == Append(save.trace, Entry("upload", up)) IN
                    /\ storage' = IF up \in {"ok", "no_path"}
                                  THEN StoragePut(storage, filePath, save.input.pictureUrl)
                                  ELSE storage
                    /\ save' = IF up = "ok"
                               THEN [save EXCEPT !.pc = "insert", !.trace = tr,
                                                 !.profilePictureFilePath = filePath]
                               ELSE SaveCatch(save, tr)
                    /\ uploadRuns' =
                         IF up = "ok"
                         THEN Append(uploadRuns,
                                  [userId |-> save.input.userId,
                                   instagramBusinessAccountId |->
                                       save.input.instagramBusinessAccountId,
                                   pictureUrl |-> save.input.pictureUrl,
                                   mime |-> mime, path |-> filePath])
                         ELSE uploadRuns
    /\ UNCHANGED <<rows, bucketName, del, calls, uiVars>>

\* What the insert can come to: the row is written, the database answers with
\* an error, or the call rejects.
InsertOutcomes(table, row) ==
    IF UniqueViolation(table, row) THEN {"error", "reject"}
    ELSE {"ok", "error", "reject"}

\* Step 4: the insert into instagram-accounts, and what follows it.
InsertAccount ==
    /\ save.pc = "insert"
    /\ LET row == AccountRow(save.input, save.longLivedAccessToken,
                             save.profilePictureFilePath)
       IN \E out \in InsertOutcomes(rows, row) :
            LET tr == Append(save.trace, Entry("insert", out)) IN
            /\ rows' = IF out = "ok" THEN rows \cup {row} ELSE rows
            /\ save' = CASE out = "ok" ->
                              [save EXCEPT !.pc = "returned", !.trace = tr,
                                           !.result = SaveSuccessResult(save.input),
                                           !.revalidated = TRUE]
                         [] out = "error" ->
                              [save EXCEPT !.pc = "returned", !.trace = tr,
                                           !.result = InsertErrorResult]
                         [] OTHER -> SaveCatch(save, tr)
    /\ UNCHANGED <<storage, bucketName, del, calls, uploadRuns, uiVars>>

\* The caller has taken the result.
SaveReturn ==
    /\ save.pc = "returned"
    /\ save.via = "direct"
    /\ save' = IdleSave
    /\ UNCHANGED <<rows, storage, bucketName, del, calls, uploadRuns, uiVars>>

\* ----------------------------------------------- deleteInstagramAccount
DeleteCatch(d, tr) ==
    [d EXCEPT !.pc = "returned", !.trace = tr,
              !.result = [error |-> DeleteErrorMessage]]

\* Both `if (error)` / `if (storageError)` branches.
DeleteErrorResult == [error |-> DeleteErrorMessage]

DeleteSuccessResult == [data |-> DeleteSuccessMessage, error |-> Null]

DeleteCall(in) ==
    /\ del.pc = "idle"
    /\ calls < MaxCalls
    /\ del' = [IdleDelete EXCEPT !.pc = "deleteRow", !.input = in,
                                 !.before = DOMAIN storage, !.via = "direct"]
    /\ calls' = calls + 1
    /\ UNCHANGED <<rows, storage, bucketName, save, uploadRuns, uiVars>>

\* The row deletion's error left unchecked.
RowDeleteAborts_IgnoresError(out) == out = "reject"

\* if (error) return ...: the storage removal is reached only without error.
RowDeleteAborts(out) == out \in {"error", "reject"}

DeleteRow ==
    /\ del.pc = "deleteRow"
    /\ \E out \in {"ok", "error", "reject"} :
         LET tr == Append(del.trace, Entry("deleteRow", out)) IN
         /\ rows' = IF out = "ok" THEN RowsAfterDelete(rows, del.input) ELSE rows
         /\ del' = CASE ~RowDeleteAborts(out) ->
                           [del EXCEPT !.pc = "removeMedia", !.trace = tr,
                                       !.affected = Cardinality(rows \ rows')]
                     [] out = "error" ->
                           [del EXCEPT !.pc = "returned", !.trace = tr,
                                       !.result = DeleteErrorResult]
                     [] OTHER -> DeleteCatch(del, tr)
    /\ UNCHANGED <<storage, bucketName, save, calls, uploadRuns, uiVars>>

\* storage.from(bucket).remove([...]) answers with an error when there is no
\* such bucket.
RemoveOutcomes == IF bucketName = Undef THEN {"error", "reject"}
                  ELSE {"ok", "error", "reject"}

RemoveMedia ==
    /\ del.pc = "removeMedia"
    /\ \E out \in RemoveOutcomes :
         LET tr == Append(del.trace, Entry("removeMedia", out)) IN
         /\ storage' = IF out = "ok"
                       THEN StorageRemove(storage,
                                {RemoveKey(del.input.userId,
                                           del.input.instagramBusinessAccountId)})
                       ELSE storage
         /\ del' = CASE out = "ok" ->
                           [del EXCEPT !.pc = "returned", !.trace = tr,
                                       !.result = DeleteSuccessResult,
                                       !.revalidated = TRUE]
                     [] out = "error" ->
                           [del EXCEPT !.pc = "returned", !.trace = tr,
                                       !.result = DeleteErrorResult]
                     [] OTHER -> DeleteCatch(del, tr)
    /\ UNCHANGED <<rows, bucketName, save, calls, uploadRuns, uiVars>>

DeleteReturn ==
    /\ del.pc = "returned"
    /\ del.via = "direct"
    /\ del' = IdleDelete
    /\ UNCHANGED <<rows, storage, bucketName, save, calls, uploadRuns, uiVars>>


\* ------------------------------------------------------------ Dashboard
\* Form submissions that may wait for their result at the same time.
MaxPending == 2

\* An account as the OAuth picker hands it over (InstagramAccount), with
\* picture.data.url and instagram_business_account.id flattened.
CandidateOf(a) ==
    [id |-> "page1", name |-> "name1", access_token |-> "short1",
     picture_url |-> "pic1", instagram_business_account_id |-> a]

\* Lists of distinct candidates.
PickerLists ==
    {<<>>} \cup
    {<<CandidateOf(a)>> : a \in AccountIds} \cup
    {<<CandidateOf(p[1]), CandidateOf(p[2])>> :
        p \in {q \in AccountIds \X AccountIds : q[1] # q[2]}}

\* JavaScript truthiness of the values the effects test.
Truthy(v) == v \notin {Null, Undef, ""}

\* The accounts the page hands to the dashboard: those of its user.
PersistedAccounts(table) == {r \in table : r.user_id = DashboardUser}

\* The candidates rendered without the filter.
Offered_Unfiltered(list, persisted) == list

\* newInstagramAccounts.filter(account => !instagramAccounts.some(...)):
\* the candidates a connect form is rendered for.
Offered(list, persisted) ==
    SelectSeq(list,
        LAMBDA c : ~ \E e \in persisted :
            e.instagram_business_account_id = c.instagram_business_account_id)

RenderedForms == Offered(newInstagramAccounts, instagramAccounts)

\* The hidden inputs of a connect form.
FormInput(c) ==
    [appScopedUserId |-> appScopedUserId,
     shortLivedAccessToken |-> c.access_token,
     instagramBusinessAccountId |-> c.instagram_business_account_id,
     facebookPageId |-> c.id,
     instagramAccountName |-> c.name,
     pictureUrl |-> c.picture_url,
     userId |-> DashboardUser]

\* setNewInstagramAccounts(prev => prev.filter(a => a.instagram_business_account.id !== id))
WithoutAccount(list, id) ==
    SelectSeq(list, LAMBDA c : c.instagram_business_account_id # id)

PendingForms == Len(saveForms) + Len(deleteForms) + Len(youtubeForms)

\* The modal lets no click through to the page behind it.
ModalBlocksPage == openConfirmDeleteModal

\* ConnectInstagramAccountButton hands over the picker's result.
PickerComplete ==
    /\ \E list \in PickerLists : newInstagramAccounts' = list
    /\ appScopedUserId' = "fb1"
    /\ UNCHANGED <<serverVars, instagramAccounts, youtubeChannels, openConfirmDeleteModal, instagramAccountToDelete,
                   youtubeChannelToDelete, saveForms, deleteForms,
                   youtubeForms, youtubeStore>>

\* "Connect Account" pressed on a rendered form.
SubmitConnect ==
    /\ ~ModalBlocksPage
    /\ PendingForms < MaxPending
    /\ \E i \in DOMAIN RenderedForms :
         saveForms' = Append(saveForms, FormInput(RenderedForms[i]))
    /\ UNCHANGED <<serverVars, appScopedUserId, newInstagramAccounts,
                   instagramAccounts, youtubeChannels, openConfirmDeleteModal, instagramAccountToDelete,
                   youtubeChannelToDelete, deleteForms, youtubeForms,
                   youtubeStore>>

\* The form state runs its submissions one after the other: the oldest one
\* starts when no other is running.  The action's input object is made of the
\* submitted form's hidden fields, which carry the names of its properties.
StartFormSave ==
    /\ saveForms # <<>>
    /\ save.pc = "idle"
    /\ calls < MaxCalls
    /\ save' = [IdleSave EXCEPT !.pc = "resolve", !.input = Head(saveForms),
                                !.via = "form"]
    /\ calls' = calls + 1
    /\ UNCHANGED <<rows, storage, bucketName, del, uploadRuns, uiVars>>

\* The result arrives as `state`; the effect on [state] runs; a revalidated
\* path brings fresh props.
FormSaveDone ==
    /\ save.pc = "returned"
    /\ save.via = "form"
    /\ saveForms' = Tail(saveForms)
    /\ newInstagramAccounts' =
         IF Truthy(save.result.error)
         THEN newInstagramAccounts     \* toast.error(state.error)
         ELSE IF Truthy(save.result.data.instagramBusinessAccountId)
         THEN WithoutAccount(newInstagramAccounts,
                  save.result.data.instagramBusinessAccountId)
         ELSE newInstagramAccounts
    /\ IF save.revalidated
       THEN /\ instagramAccounts' = PersistedAccounts(rows)
            /\ youtubeChannels' = youtubeStore
       ELSE UNCHANGED <<instagramAccounts, youtubeChannels>>
    /\ save' = IdleSave
    /\ UNCHANGED <<rows, storage, bucketName, del, calls, uploadRuns,
                   appScopedUserId,
                   openConfirmDeleteModal, instagramAccountToDelete,
                   youtubeChannelToDelete, deleteForms, youtubeForms,
                   youtubeStore>>

\* The page is rendered again with the accounts persisted by now.
RefreshProps ==
    /\ instagramAccounts' = PersistedAccounts(rows)
    /\ youtubeChannels' = youtubeStore
    /\ UNCHANGED <<serverVars, appScopedUserId, newInstagramAccounts, openConfirmDeleteModal, instagramAccountToDelete,
                   youtubeChannelToDelete, saveForms, deleteForms,
                   youtubeForms, youtubeStore>>

\* The delete icon of an existing Instagram account.
ClickDeleteInstagram ==
    /\ ~ModalBlocksPage
    /\ \E account \in instagramAccounts :
         instagramAccountToDelete' = {account}
    /\ openConfirmDeleteModal' = TRUE
    /\ UNCHANGED <<serverVars, appScopedUserId, newInstagramAccounts,
                   instagramAccounts, youtubeChannels, youtubeChannelToDelete, saveForms, deleteForms,
                   youtubeForms, youtubeStore>>

\* The delete icon of an existing YouTube channel.
ClickDeleteYoutube ==
    /\ ~ModalBlocksPage
    /\ \E channel \in youtubeChannels :
         youtubeChannelToDelete' = {channel}
    /\ openConfirmDeleteModal' = TRUE
    /\ UNCHANGED <<serverVars, appScopedUserId, newInstagramAccounts,
                   instagramAccounts, youtubeChannels, instagramAccountToDelete, saveForms, deleteForms,
                   youtubeForms, youtubeStore>>

\* An onCloseCallback that clears the Instagram target only.
OnCloseCallback_KeepsYoutube ==
    /\ instagramAccountToDelete' = {}
    /\ UNCHANGED youtubeChannelToDelete

\* onCloseCallback of the modal.
OnCloseCallback ==
    /\ instagramAccountToDelete' = {}
    /\ youtubeChannelToDelete' = {}

\* Modal: when it goes from open to closed it calls onCloseCallback; closing
\* a closed modal does nothing.
CloseModal ==
    /\ openConfirmDeleteModal' = FALSE
    /\ IF openConfirmDeleteModal
       THEN OnCloseCallback
       ELSE UNCHANGED <<instagramAccountToDelete, youtubeChannelToDelete>>

\* The Cancel button: setOpenConfirmDeleteModal(false).
ModalCancel ==
    /\ openConfirmDeleteModal
    /\ CloseModal
    /\ UNCHANGED <<serverVars, appScopedUserId, newInstagramAccounts,
                   instagramAccounts, youtubeChannels, saveForms, deleteForms, youtubeForms, youtubeStore>>

\* The Delete button of the modal, rendered for an Instagram target.
SubmitDeleteInstagram ==
    /\ openConfirmDeleteModal
    /\ PendingForms < MaxPending
    /\ \E account \in instagramAccountToDelete :
         deleteForms' = Append(deleteForms,
             [instagramBusinessAccountId |-> account.instagram_business_account_id,
              userId |-> DashboardUser])
    /\ UNCHANGED <<serverVars, appScopedUserId, newInstagramAccounts,
                   instagramAccounts, youtubeChannels, openConfirmDeleteModal, instagramAccountToDelete,
                   youtubeChannelToDelete, saveForms, youtubeForms,
                   youtubeStore>>

StartFormDelete ==
    /\ deleteForms # <<>>
    /\ del.pc = "idle"
    /\ calls < MaxCalls
    /\ del' = [IdleDelete EXCEPT !.pc = "deleteRow", !.input = Head(deleteForms),
                                 !.before = DOMAIN storage, !.via = "form"]
    /\ calls' = calls + 1
    /\ UNCHANGED <<rows, storage, bucketName, save, uploadRuns, uiVars>>

\* The result arrives as deleteInstagramAccountState; its effect runs.
FormDeleteDone ==
    /\ del.pc = "returned"
    /\ del.via = "form"
    /\ deleteForms' = Tail(deleteForms)
    /\ IF Truthy(del.result.error)
       THEN \* toast.error(...)
            UNCHANGED <<openConfirmDeleteModal, instagramAccountToDelete,
                        youtubeChannelToDelete>>
       ELSE IF Truthy(del.result.data)
       THEN \* toast.success(...); setOpenConfirmDeleteModal(false)
            CloseModal
       ELSE UNCHANGED <<openConfirmDeleteModal, instagramAccountToDelete,
                        youtubeChannelToDelete>>
    /\ IF del.revalidated
       THEN /\ instagramAccounts' = PersistedAccounts(rows)
            /\ youtubeChannels' = youtubeStore
       ELSE UNCHANGED <<instagramAccounts, youtubeChannels>>
    /\ del' = IdleDelete
    /\ UNCHANGED <<rows, storage, bucketName, save, calls, uploadRuns,
                   appScopedUserId,
                   newInstagramAccounts, saveForms, youtubeForms, youtubeStore>>

\* The Delete button of the modal, rendered for a YouTube target.
SubmitDeleteYoutube ==
    /\ openConfirmDeleteModal
    /\ PendingForms < MaxPending
    /\ \E channel \in youtubeChannelToDelete :
         youtubeForms' = Append(youtubeForms,
             [youtubeChannelId |-> channel.id, userId |-> DashboardUser])
    /\ UNCHANGED <<serverVars, appScopedUserId, newInstagramAccounts,
                   instagramAccounts, youtubeChannels, openConfirmDeleteModal, instagramAccountToDelete,
                   youtubeChannelToDelete, saveForms, deleteForms,
                   youtubeStore>>

\* deleteYoutubeChannel runs, its result arrives and the effect on
\* deleteYoutubeChannelState runs.
YoutubeDeleteDone ==
    /\ youtubeForms # <<>>
    /\ youtubeForms' = Tail(youtubeForms)
    /\ \E out \in {"ok", "error"} :
         IF out = "ok"
         THEN /\ youtubeStore' =
                   {c \in youtubeStore : c.id # Head(youtubeForms).youtubeChannelId}
              /\ youtubeChannels' = youtubeStore'
              /\ instagramAccounts' = PersistedAccounts(rows)
              /\ CloseModal
         ELSE /\ UNCHANGED <<youtubeStore, youtubeChannels, instagramAccounts,
                             openConfirmDeleteModal, instagramAccountToDelete,
                             youtubeChannelToDelete>>
    /\ UNCHANGED <<serverVars, appScopedUserId, newInstagramAccounts, saveForms, deleteForms>>

\* ----------------------------------------------------------- specification
SaveInvoke == \E in \in SaveInputs : SaveCall(in)
DeleteInvoke == \E in \in DeleteInputs : DeleteCall(in)

Next ==
    \/ SaveInvoke
    \/ FetchInstagramUsernameFromPageId
    \/ FetchLongLivedAccessToken
    \/ UploadInstagramProfilePicture
    \/ InsertAccount
    \/ SaveReturn
    \/ DeleteInvoke
    \/ DeleteRow
    \/ RemoveMedia
    \/ DeleteReturn

Spec == Init /\ [][Next]_vars

\* Linking from the dashboard: the picker, the connect forms and the save
\* action they start.
LinkNext ==
    \/ PickerComplete
    \/ SubmitConnect
    \/ StartFormSave
    \/ FetchInstagramUsernameFromPageId
    \/ FetchLongLivedAccessToken
    \/ UploadInstagramProfilePicture
    \/ InsertAccount
    \/ FormSaveDone
    \/ RefreshProps

LinkSpec == Init /\ [][LinkNext]_vars

\* Accounts linked before the dashboard is opened: rows a successful
\* saveInstagramAccount of DashboardUser has written, with their pictures.
LinkedRow(a) ==
    AccountRow([appScopedUserId |-> "fb1", shortLivedAccessToken |-> "short1",
                instagramBusinessAccountId |-> a, facebookPageId |-> "page1",
                instagramAccountName |-> "name1", pictureUrl |-> "pic1",
                userId |-> DashboardUser],
               "long1",
               ProfilePicturePath(DashboardUser, a, <<"image", "jpeg">>))

LinkedInit ==
    /\ rows = {LinkedRow(a) : a \in AccountIds}
    /\ storage = [p \in {ProfilePicturePath(DashboardUser, a, <<"image", "jpeg">>) :
                            a \in AccountIds} |-> "pic1"]
    /\ bucketName \in {"media-bucket", Undef}
    /\ save = IdleSave
    /\ del = IdleDelete
    /\ calls = 0
    /\ uploadRuns = <<>>
    /\ DashboardInit
    /\ instagramAccounts = PersistedAccounts(rows)

\* Deleting from the dashboard: the delete icons, the confirmation modal and
\* the delete actions its forms start.
ModalNext ==
    \/ RefreshProps
    \/ ClickDeleteInstagram
    \/ ClickDeleteYoutube
    \/ ModalCancel
    \/ SubmitDeleteInstagram
    \/ StartFormDelete
    \/ DeleteRow
    \/ RemoveMedia
    \/ FormDeleteDone
    \/ SubmitDeleteYoutube
    \/ YoutubeDeleteDone

ModalSpec == LinkedInit /\ [][ModalNext]_vars

\* ------------------------------------------------------------ properties
StepOrder == <<"resolve", "exchange", "upload", "insert">>

AllStepsOk(tr) ==
    /\ Len(tr) = 4
    /\ \A i \in DOMAIN tr : tr[i].outcome = "ok"

\* C1: the steps of saveInstagramAccount run in the order resolve, exchange,
\* upload, insert, and a step runs only if every earlier step succeeded; when
\* the username response carries an error field the call returns an error
\* result with no exchange, upload or insert.
C1_StepsShortCircuit ==
    /\ Len(save.trace) <= 4
    /\ \A i \in DOMAIN save.trace :
         /\ save.trace[i].step = StepOrder[i]
         /\ i < Len(save.trace) => save.trace[i].outcome = "ok"
    /\ (save.trace # <<>> /\ save.trace[1].outcome = "error_field") =>
         /\ Len(save.trace) = 1
         /\ save.pc = "returned"
         /\ save.result.error # Null

C1_Witness ==
    /\ save.pc = "returned"
    /\ save.trace = <<Entry("resolve", "error_field")>>
    /\ save.result.error = SaveErrorMessage

InsertFailed(s) ==
    /\ s.pc = "returned"
    /\ Len(s.trace) = 4
    /\ s.trace[4].outcome # "ok"

\* C2 as stated: when the three first steps succeed and the insert fails, the
\* call returns an error, no row exists for that business-account id, the
\* long-lived token is in no row, and the re-hosted object is in storage.
C2_NoRowForAccountAfterFailedInsert ==
    InsertFailed(save) =>
        /\ save.result.error # Null
        /\ ~ \E r \in rows : r.instagram_business_account_id =
                                 save.input.instagramBusinessAccountId
        /\ ~ \E r \in rows : r.access_token = save.longLivedAccessToken
        /\ save.profilePictureFilePath \in DOMAIN storage

\* C2 amended: a failing insert returns the generic error and leaves the table
\* and the bucket as they were, the re-hosted object included: the call
\* creates no row.
C2_FailedInsertCreatesNoRow ==
    [][(save.pc = "insert" /\ InsertFailed(save')) =>
          /\ save'.result.error = SaveErrorMessage
          /\ ~save'.revalidated
          /\ rows' = rows
          /\ storage' = storage
          /\ save.profilePictureFilePath \in DOMAIN storage']_vars

C2_Witness ==
    /\ InsertFailed(save)
    /\ save.trace[4].outcome = "error"
    /\ \E r \in rows : r.instagram_business_account_id =
                           save.input.instagramBusinessAccountId
    /\ save.profilePictureFilePath \in DOMAIN storage

\* C3: saveInstagramAccount returns success exactly when all four steps
\* succeeded; then one new row was inserted, made of the input name, page id,
\* business-account id and user id, the exchanged long-lived token and the
\* uploaded path; the result carries the input id; /accounts is revalidated
\* on success and on no error outcome.
C3_SuccessIffAllSteps ==
    /\ [](save.pc = "returned" =>
            /\ (save.result.error = Null) <=> AllStepsOk(save.trace)
            /\ save.revalidated <=> (save.result.error = Null)
            /\ save.result.error = Null =>
                 save.result.data.instagramBusinessAccountId =
                     save.input.instagramBusinessAccountId)
    /\ [][(save.pc = "insert" /\ save'.pc = "returned"
                              /\ save'.result.error = Null) =>
            LET row == [account_name |-> save.input.instagramAccountName,
                        facebook_page_id |-> save.input.facebookPageId,
                        instagram_business_account_id |->
                            save.input.instagramBusinessAccountId,
                        access_token |-> save.longLivedAccessToken,
                        picture_file_path |-> save.profilePictureFilePath,
                        user_id |-> save.input.userId]
            IN /\ row \notin rows
               /\ rows' = rows \cup {row}
               /\ row.access_token \in LongTokens
               /\ row.access_token # save.input.shortLivedAccessToken
               /\ row.picture_file_path = uploadRuns[Len(uploadRuns)].path]_vars

C3_Witness ==
    /\ save.pc = "returned"
    /\ save.result.error = Null
    /\ save.revalidated
    /\ \E r \in rows : /\ r.instagram_business_account_id =
                            save.input.instagramBusinessAccountId
                       /\ r.access_token = save.longLivedAccessToken

SavePcs == {"idle", "resolve", "exchange", "upload", "insert", "returned"}
DeletePcs == {"idle", "deleteRow", "removeMedia", "returned"}

RowsOf(table, id) == {r \in table : r.instagram_business_account_id = id}

ObjectsOf(st, userId, id) ==
    {p \in DOMAIN st : p[1] = userId /\ p[3] = id}

\* C5: deleteInstagramAccount deletes the row first and the media afterwards;
\* a failed row deletion attempts no storage removal and changes neither rows
\* nor media; a failed storage removal returns the generic delete error and
\* leaves the row deleted and the media object in place.
C5_DeleteOrderAndNoCompensation ==
    /\ [](/\ Len(del.trace) <= 2
          /\ \A i \in DOMAIN del.trace :
               /\ del.trace[i].step = <<"deleteRow", "removeMedia">>[i]
               /\ i < Len(del.trace) => del.trace[i].outcome = "ok")
    /\ [][del.pc = "deleteRow" /\ del' # del =>
            IF del'.trace[1].outcome = "ok"
            THEN /\ RowsOf(rows', del.input.instagramBusinessAccountId) = {}
                 /\ storage' = storage
                 /\ del'.pc = "removeMedia"
            ELSE /\ rows' = rows
                 /\ storage' = storage
                 /\ del'.pc = "returned"
                 /\ del'.result = [error |-> DeleteErrorMessage]]_vars
    /\ [][(del.pc = "removeMedia" /\ del' # del
                                  /\ del'.trace[2].outcome # "ok") =>
            /\ del'.pc = "returned"
            /\ del'.result = [error |-> DeleteErrorMessage]
            /\ rows' = rows
            /\ storage' = storage]_vars

C5_Witness ==
    /\ del.pc = "returned"
    /\ Len(del.trace) = 2
    /\ del.trace[2].outcome = "error"
    /\ del.result.error = DeleteErrorMessage
    /\ RowsOf(rows, del.input.instagramBusinessAccountId) = {}
    /\ ObjectsOf(storage, del.input.userId,
                 del.input.instagramBusinessAccountId) \cap del.before # {}

\* C6: after a deleteInstagramAccount for (userId, businessAccountId) that
\* returns success, storage holds none of the profile pictures uploaded for
\* that pair before the call.
C6_DeleteRemovesMedia ==
    (del.pc = "returned" /\ del.result.error = Null) =>
        ObjectsOf(storage, del.input.userId,
                  del.input.instagramBusinessAccountId) \cap del.before = {}

\* C7: no connect form is rendered for a candidate whose business-account id
\* is the id of an account in the persisted set given to the dashboard.
C7_OfferedExcludesPersisted ==
    \A i \in DOMAIN RenderedForms :
        ~ \E e \in instagramAccounts :
            e.instagram_business_account_id =
                RenderedForms[i].instagram_business_account_id

C7_Witness ==
    /\ instagramAccounts # {}
    /\ \E i \in DOMAIN newInstagramAccounts :
         \E e \in instagramAccounts :
            e.instagram_business_account_id =
                newInstagramAccounts[i].instagram_business_account_id
    /\ Len(RenderedForms) = 1

\* C8: at most one submission of the connect form is in flight for a
\* business-account id at any time.
C8_NoOverlappingSubmissions ==
    \A i \in DOMAIN saveForms, j \in DOMAIN saveForms :
        i # j => saveForms[i].instagramBusinessAccountId #
                     saveForms[j].instagramBusinessAccountId

SameUpload(a, b) ==
    /\ a.userId = b.userId
    /\ a.instagramBusinessAccountId = b.instagramBusinessAccountId
    /\ a.pictureUrl = b.pictureUrl

\* C10 as stated: a second run of uploadInstagramProfilePicture with the same
\* source URL, user id and business-account id returns the path of the first,
\* and storage then holds exactly one object for that user and account.
C10_SameUrlSamePathOneObject ==
    \A i \in DOMAIN uploadRuns, j \in DOMAIN uploadRuns :
        (i < j /\ SameUpload(uploadRuns[i], uploadRuns[j])) =>
            /\ uploadRuns[i].path = uploadRuns[j].path
            /\ Cardinality(ObjectsOf(storage, uploadRuns[j].userId,
                   uploadRuns[j].instagramBusinessAccountId)) = 1

\* Runs that agree on user, account and MIME type agree on the path, which is
\* built from them and holds the picture; no upload fails on an existing object.
C10_RunsAgree ==
    /\ \A i \in DOMAIN uploadRuns, j \in DOMAIN uploadRuns :
         (/\ uploadRuns[i].userId = uploadRuns[j].userId
          /\ uploadRuns[i].instagramBusinessAccountId =
                 uploadRuns[j].instagramBusinessAccountId
          /\ uploadRuns[i].mime = uploadRuns[j].mime) =>
             uploadRuns[i].path = uploadRuns[j].path
    /\ \A i \in DOMAIN uploadRuns :
         LET u == uploadRuns[i] IN
         /\ u.path = <<u.userId, "instagramAccount", u.instagramBusinessAccountId,
                       <<"profile_picture",
                         IF Len(u.mime) >= 2 THEN u.mime[2] ELSE Undef>>>>
         /\ u.path \in DOMAIN storage
         /\ storage[u.path] \in PictureUrls
    /\ \A i \in DOMAIN save.trace : save.trace[i].outcome # "duplicate"

\* C10 amended: two runs for the same user id and business-account id whose
\* downloads report the same MIME type return the same path
\* {userId}/instagramAccount/{id}/profile_picture.{ext}; the later run
\* overwrites the object there and never fails because it exists, so the
\* path holds one object with the picture.
C10_SameTypeSamePathOverwritten ==
    /\ [][(save.pc = "upload" /\ save'.pc = "insert") =>
            LET path == save'.profilePictureFilePath IN
            /\ DOMAIN storage' = DOMAIN storage \cup {path}
            /\ storage'[path] = save.input.pictureUrl
            /\ \A p \in DOMAIN storage \ {path} : storage'[p] = storage[p]]_vars
    /\ []C10_RunsAgree

C10_Witness ==
    /\ Len(uploadRuns) = 2
    /\ SameUpload(uploadRuns[1], uploadRuns[2])
    /\ uploadRuns[1].path = uploadRuns[2].path
    /\ Cardinality(DOMAIN storage) = 1

AllOutcomesOk(tr) == \A i \in DOMAIN tr : tr[i].outcome = "ok"

\* C11: a deleteInstagramAccount whose business-account id has no row is not
\* an error: its row deletion leaves the table as it is and, unless the
\* database itself answers with an error, goes on to the storage removal; a
\* call that removed no row and whose two remote operations answered without
\* error returns the success result (error = null), and an error result
\* comes only from a remote operation that failed.
C11_AbsentRowIsNoError ==
    /\ [][(/\ del.pc = "deleteRow"
           /\ del' # del
           /\ RowsOf(rows, del.input.instagramBusinessAccountId) = {}) =>
            /\ rows' = rows
            /\ del'.affected = 0
            /\ del'.trace[1].outcome = "ok" => del'.pc = "removeMedia"]_vars
    /\ [](del.pc = "returned" =>
            /\ (AllOutcomesOk(del.trace) /\ del.affected = 0) =>
                   del.result = DeleteSuccessResult
            /\ del.result.error # Null => ~AllOutcomesOk(del.trace))

C11_Witness ==
    /\ del.pc = "returned"
    /\ del.affected = 0
    /\ Len(del.trace) = 2
    /\ del.result = DeleteSuccessResult
    /\ rows # {}
    /\ RowsOf(rows, del.input.instagramBusinessAccountId) = {}

\* C12: the row deletion of a deleteInstagramAccount call carrying user id U
\* removes no row whose user_id differs from U.
C12_DeleteRespectsOwnership ==
    [][(del.pc = "deleteRow" /\ del' # del) =>
          \A r \in rows : r.user_id # del.input.userId => r \in rows']_vars

====
